---- MODULE Spec2Model ----
(***************************************************************************)
(* Model of the JobsScraper extraction-and-deduplication engine:           *)
(*   - the golden store (golden_record_gen.py, app.update_golden_and_      *)
(*     augment, the post-crawl block of run_spider.main), and              *)
(*   - the spider callbacks (scraper/spiders/config_spider.py).            *)
(*                                                                         *)
(* Strings are sequences of tokens.  A token is a character, except that   *)
(* the prefix "tel:" is one token.  None and "" are both <<>> wherever the *)
(* code only tests truthiness or writes the value to a CSV file.           *)
(* A CSV file is the sequence of dicts csv.DictReader returns for it; a    *)
(* dict is a function from column names to strings.                        *)
(***************************************************************************)
EXTENDS Integers, Sequences, FiniteSets, TLC

\* ---------------------------------------------------------------- bounds
NumFiles    == 2      \* run CSV files output/providers-<ts>.csv
MaxRunRows  == 1      \* rows a crawl writes to its feed in the store model
MaxGolden   == 4      \* cap on the golden row count kept in the state
MaxFileRows == 4      \* cap on a run file's row count kept in the state
MaxPages    == 2      \* the max_pages a source's pagination.param configures
MaxCards    == 1      \* item containers on one listing page
MaxFeed     == 2      \* cap on the number of items a crawl emits
MinTarget   == 1      \* the --min-per-source target, when one is given
MaxErrors   == 1      \* cap on the number of error entries a crawl records

\* ---------------------------------------------------------------- strings
None == <<>>

Whitespace == {" "}
Separators == {" ", "-", "."}

RECURSIVE LStrip(_)
LStrip(s) == IF s # <<>> /\ Head(s) \in Whitespace THEN LStrip(Tail(s)) ELSE s

RECURSIVE RStrip(_)
RStrip(s) ==
    IF s # <<>> /\ s[Len(s)] \in Whitespace THEN RStrip(SubSeq(s, 1, Len(s) - 1)) ELSE s

Strip(s) == RStrip(LStrip(s))

IsSeparator(c) == c \in Separators

\* golden_record_gen.normalize_phone
normalize_phone(phone) ==
    IF phone = <<>> THEN <<>>
    ELSE LET p == Strip(phone)
             q == IF p # <<>> /\ Head(p) = "tel:" THEN Tail(p) ELSE p
         IN  SelectSeq(q, LAMBDA c : ~IsSeparator(c))

\* ---------------------------------------------------------------- rows
\* column names in Python's sorted() order
SortedCols == << "address", "api_requests", "business_name", "businesses", "category", "city",
                 "detail_url",
                 "email", "listing_url", "phone", "postal_code", "province", "region", "source",
                 "website" >>

\* the columns scrapy's CSV feed writes for a ProviderItem
ItemCols == { "source", "business_name", "phone", "email", "website", "address",
              "listing_url", "detail_url" }

\* the columns of the <prefix>-yelp_api_overview.csv export
YelpCols == { "source", "api_requests" }

\* dict.get(k) with None read as ""
Get(r, k) == IF k \in DOMAIN r THEN r[k] ELSE None

SetPhone(r, ph) == [k \in (DOMAIN r) \cup {"phone"} |-> IF k = "phone" THEN ph ELSE r[k]]

RowPhone(r) == normalize_phone(Get(r, "phone"))

RECURSIVE JoinItems(_, _)
JoinItems(r, ks) ==
    IF ks = <<>> THEN <<>>
    ELSE << Head(ks), "U+241E" >> \o r[Head(ks)] \o
         (IF Len(ks) > 1 THEN << "U+241F" >> \o JoinItems(r, Tail(ks)) ELSE <<>>)

\* golden_record_gen._canon_row_key and the _canon of update_golden_and_augment
_canon_row_key(r) == JoinItems(r, SelectSeq(SortedCols, LAMBDA k : k \in DOMAIN r))

RECURSIVE UnionKeys(_)
UnionKeys(rows) == IF rows = <<>> THEN {} ELSE (DOMAIN Head(rows)) \cup UnionKeys(Tail(rows))

\* preferred_fields(), and app._preferred_csv_fields()
preferred_fields ==
    << "source", "category", "region", "business_name", "phone", "email", "website", "address",
       "city", "province", "postal_code", "listing_url", "detail_url" >>

InSeq(x, q) == \E i \in 1..Len(q) : q[i] = x

\* sorted(keys) in place of the preferred order followed by the extras
fieldnames_sorted(rows) == SelectSeq(SortedCols, LAMBDA k : k \in UnionKeys(rows))

\* the header write_csv_rows gives the file, lines 69-73 (app._write_csv_rows,
\* lines 353-357, is the same code)
fieldnames(rows) ==
    SelectSeq(preferred_fields, LAMBDA k : k \in UnionKeys(rows))
    \o SelectSeq(SortedCols, LAMBDA k : k \in UnionKeys(rows) /\ ~InSeq(k, preferred_fields))

\* write_csv_rows followed by read_csv_rows of the same file: every row gets
\* every column of the header, "" where it had none
write_csv_rows(rows) ==
    IF rows = <<>> THEN <<>>
    ELSE LET keys == UnionKeys(rows)
         IN  [i \in 1..Len(rows) |-> [k \in keys |-> Get(rows[i], k)]]

read_csv_rows(file) == file

\* ---------------------------------------------------------------- state
VARIABLES
    golden,        \* output/providers-golden.csv
    runs,          \* the other output/providers-*.csv files, by file id
    order,         \* ids of the existing files, most recently written first
    pc,            \* position of the running process
    caller,        \* who called golden_record_gen.main: "cli" or "spider"
    cur,           \* file id of the current run's CSV (0: none)
    viaApp,        \* the run was launched by app.run_scrape
    golden_rows,   \* golden_record_gen.main's local golden_rows
    todo,          \* files main's augment loop has still to visit
    lastMainCount, \* golden row count after the previous main (-1: none)
    dirty,         \* a file was written by something else since that main
    merges,        \* golden merges performed so far for the current run
    fault          \* the golden-file I/O failure met by the step just taken

storeVars == << golden, runs, order, pc, caller, cur, viaApp, golden_rows, todo,
                lastMainCount, dirty, merges, fault >>

VARIABLES
    cfg,           \* the source's configuration (response.meta["cfg"])
    min_per_source,\* ConfigSpider.min_per_source
    queue,         \* requests scheduled and not yet answered
    requested,     \* cursor values of the listing requests issued so far
    _counts,       \* ConfigSpider._counts[source]
    _seen_phones,  \* ConfigSpider._seen_phones_by_source[source]
    feed,          \* items emitted so far, in order: the run's CSV feed
    last,          \* what the latest parse_listing call did
    _errors,       \* ConfigSpider._errors[source]
    hop,           \* the latest callback: its request and response, what it yielded
    sources_file,  \* the file self.sources_file names, and whether loading it raised
    summary        \* the run summary file (self.summary_file)

crawlVars == << cfg, min_per_source, queue, requested, _counts, _seen_phones, feed, last,
                _errors, hop, sources_file, summary >>

VARIABLES
    arg,           \* the argument a library function is called with on its own
    ret            \* the function called on arg, how often, and what it returned

pureVars == << arg, ret >>

VARIABLE
    jobs           \* the golden merges running side by side, by run file

vars == << storeVars, crawlVars, pureVars, jobs >>

\* no library function is being looked at on its own
NoArg == [ kind |-> "none", v |-> <<>> ]
NoRet == [ fn |-> "none", n |-> 0, prev |-> <<>>, val |-> <<>> ]

\* no two merges are running side by side
NoJobs == << >>

RunFiles  == 1..NumFiles
Files     == 1..(2 * NumFiles)
YelpFile(f) == NumFiles + f

\* rows the spider can emit into a run CSV: the phone is never empty
Item(name, phone) ==
    [ source |-> << "s" >>, business_name |-> name, phone |-> phone, email |-> None,
      website |-> None, address |-> None, listing_url |-> << "page=1" >>, detail_url |-> None ]

ItemRows ==
    { Item(<< "a" >>, << "4", "1" >>),
      Item(<< "b" >>, << "4", "1" >>),
      Item(<< "a" >>, << "4", "-", "1" >>),
      Item(<< "a" >>, << "tel:", "tel:", "tel:", "4" >>) }

YelpOverviewRow == [ source |-> << "s" >>, api_requests |-> << "1" >> ]

RECURSIVE SeqsUpTo(_, _)
SeqsUpTo(S, n) ==
    IF n = 0 THEN { <<>> }
    ELSE LET shorter == SeqsUpTo(S, n - 1)
         IN  shorter \cup { Append(q, x) : q \in shorter, x \in S }

\* a write moves the file to the front of the mtime order
Touch(ord, f) == << f >> \o SelectSeq(ord, LAMBDA g : g # f)

\* collect_input_csvs: the existing run CSVs, newest first
collect_input_csvs == order

RECURSIVE ConcatFiles(_, _)
ConcatFiles(fs, ps) ==
    IF ps = <<>> THEN <<>> ELSE read_csv_rows(fs[Head(ps)]) \o ConcatFiles(fs, Tail(ps))

\* the loop bodies of build_golden (lines 108-117 and 120-130)
RECURSIVE AddRows(_, _, _)
AddRows(out, seen, rows) ==
    IF rows = <<>> THEN [ out |-> out, seen |-> seen ]
    ELSE LET r   == Head(rows)
             ph  == normalize_phone(Get(r, "phone"))
             rr  == SetPhone(r, ph)
             key == _canon_row_key(rr)
         IN  IF ph = <<>> \/ key \in seen
             THEN AddRows(out, seen, Tail(rows))
             ELSE AddRows(Append(out, rr), seen \cup { key }, Tail(rows))

build_golden(g, fs, csvs) ==
    LET kept == AddRows(<<>>, {}, read_csv_rows(g))
    IN  AddRows(kept.out, kept.seen, ConcatFiles(fs, csvs)).out

CurPhones(cur_rows) == { RowPhone(cur_rows[i]) : i \in 1..Len(cur_rows) } \ { <<>> }

RECURSIVE AddRowsFor(_, _)
AddRowsFor(phones, grows) ==
    IF grows = <<>> THEN <<>>
    ELSE LET r  == Head(grows)
             ph == normalize_phone(Get(r, "phone"))
         IN  IF ph = <<>> \/ ph \in phones
             THEN AddRowsFor(phones, Tail(grows))
             ELSE << SetPhone(r, ph) >> \o AddRowsFor(phones, Tail(grows))

\* augment_csv_with_golden writing the golden rows ahead of the file's own
augment_csv_with_golden_prepend(file, grows) ==
    LET cur_rows == read_csv_rows(file)
        add_rows == AddRowsFor(CurPhones(cur_rows), grows)
    IN  IF add_rows # <<>> THEN write_csv_rows(add_rows \o cur_rows) ELSE file

\* augment_csv_with_golden: the file's rows afterwards
augment_csv_with_golden(file, grows) ==
    LET cur_rows == read_csv_rows(file)
        add_rows == AddRowsFor(CurPhones(cur_rows), grows)
    IN  IF add_rows # <<>> THEN write_csv_rows(cur_rows \o add_rows) ELSE file

HasPhone(r) == normalize_phone(Get(r, "phone")) # <<>>

RECURSIVE NewRows(_, _)
NewRows(seen, rows) ==
    IF rows = <<>> THEN <<>>
    ELSE LET key == _canon_row_key(Head(rows))
         IN  IF key \in seen THEN NewRows(seen, Tail(rows))
             ELSE << Head(rows) >> \o NewRows(seen \cup { key }, Tail(rows))

\* update_golden_and_augment: the list "combined"
Combined(g, file) ==
    LET g_rows       == SelectSeq(read_csv_rows(g), HasPhone)
        current_rows == SelectSeq(read_csv_rows(file), HasPhone)
        seen         == { _canon_row_key(g_rows[i]) : i \in 1..Len(g_rows) }
    IN  g_rows \o NewRows(seen, current_rows)

\* ---------------------------------------------------------------- spider
PageToks == << "page=1", "page=2", "page=3", "page=4", "page=5", "page=6", "page=7", "page=8" >>

\* the listing URL whose query parameter has the value k
ListingUrl(k) == << PageToks[k] >>

DetailUrl  == << "detail" >>
WebsiteUrl == << "http://w" >>
Email      == << "e@x" >>
MaxCursor  == MaxPages + 1

\* a ProviderItem field that was never assigned
Absent == << "<absent>" >>

\* not item.get(k)
Falsy(v) == v = None \/ v = Absent

\* ProviderItem()
NewItem == [ k \in ItemCols |-> Absent ]

NoItem == [ k \in ItemCols |-> None ]

\* what the CSV feed exporter writes for an item
FeedRow(item) == [ k \in ItemCols |-> IF Falsy(item[k]) THEN None ELSE item[k] ]

\* scraper.utils.normalize_phone
U_normalize_phone(phone) ==
    IF Falsy(phone) THEN None
    ELSE LET p == Strip(phone)
             q == IF p # <<>> /\ Head(p) = "tel:" THEN Tail(p) ELSE p
         IN  SelectSeq(q, LAMBDA c : c \notin Whitespace)

\* the caches ConfigSpider.__init__ loads from providers-golden.csv
ColumnValues(col) == { Strip(Get(golden[i], col)) : i \in 1..Len(golden) } \ { <<>> }
_golden_phones       == ColumnValues("phone")
_golden_listing_urls == ColumnValues("listing_url")
_golden_detail_urls  == ColumnValues("detail_url")

\* the extraction side of a source's configuration
BaseProfile ==
    [ detail_link |-> FALSE, detail_fields |-> FALSE, follow_links |-> FALSE,
      visit_website_for_email |-> FALSE, visit_contact_page |-> FALSE,
      skip_visited_details |-> FALSE, jsonld_fallback |-> TRUE,
      scan_phones_on_page |-> FALSE, item_selectors |-> 1 ]

\* profiles whose items are settled on the listing page or one fetch later
LightProfiles ==
    { BaseProfile,
      [ BaseProfile EXCEPT !.detail_link = TRUE, !.detail_fields = TRUE, !.jsonld_fallback = FALSE ],
      [ BaseProfile EXCEPT !.scan_phones_on_page = TRUE, !.jsonld_fallback = FALSE ],
      [ BaseProfile EXCEPT !.follow_links = TRUE, !.detail_fields = TRUE, !.jsonld_fallback = FALSE ] }

\* profiles that send an item through detail, website and contact pages
FlowProfiles ==
    { [ BaseProfile EXCEPT !.visit_website_for_email = TRUE, !.visit_contact_page = TRUE ],
      [ BaseProfile EXCEPT !.detail_link = TRUE, !.detail_fields = TRUE,
                           !.visit_website_for_email = TRUE, !.skip_visited_details = TRUE ],
      [ BaseProfile EXCEPT !.detail_link = TRUE, !.detail_fields = TRUE,
                           !.visit_website_for_email = TRUE, !.visit_contact_page = TRUE,
                           !.jsonld_fallback = FALSE ] }

\* profiles for single listing pages: item_selector a list of two selectors,
\* and the page-wide phone scan next to a website fetch
PageProfiles ==
    { [ BaseProfile EXCEPT !.item_selectors = 2 ],
      [ BaseProfile EXCEPT !.scan_phones_on_page = TRUE, !.visit_website_for_email = TRUE,
                           !.jsonld_fallback = FALSE ] }

\* the profile paged through to the last cursor: detail fetches are in flight
\* while the listing pages that follow are answered
DeepProfiles ==
    { [ BaseProfile EXCEPT !.detail_link = TRUE, !.detail_fields = TRUE, !.jsonld_fallback = FALSE ] }

YelpProfiles ==
    { BaseProfile,
      [ BaseProfile EXCEPT !.visit_website_for_email = TRUE, !.visit_contact_page = TRUE ] }

WithPagination(prof, api, skip, nextsel, param, maxp) ==
    [ api |-> api, skip_visited_listings |-> skip, next_page_selector |-> nextsel,
      param |-> param, max_pages |-> maxp,
      detail_link |-> prof.detail_link, detail_fields |-> prof.detail_fields,
      follow_links |-> prof.follow_links,
      visit_website_for_email |-> prof.visit_website_for_email,
      visit_contact_page |-> prof.visit_contact_page,
      skip_visited_details |-> prof.skip_visited_details,
      jsonld_fallback |-> prof.jsonld_fallback,
      scan_phones_on_page |-> prof.scan_phones_on_page,
      item_selectors |-> prof.item_selectors ]

\* pagination.param of a source: absent, without max_pages, with max_pages
ParamConfigs == { << FALSE, 0 >>, << TRUE, 0 >>, << TRUE, MaxPages >> }

\* the sources a run is configured with: HTML sources and Yelp API sources
Configs ==
    { WithPagination(prof, FALSE, skip, nextsel, pm[1], pm[2]) :
          prof \in LightProfiles, skip \in BOOLEAN, nextsel \in BOOLEAN, pm \in ParamConfigs }
    \cup
    { WithPagination(prof, FALSE, FALSE, FALSE, FALSE, 0) : prof \in FlowProfiles \cup PageProfiles }
    \cup
    { WithPagination(prof, FALSE, FALSE, FALSE, TRUE, MaxCursor) : prof \in DeepProfiles }
    \cup
    { WithPagination(prof, TRUE, FALSE, FALSE, FALSE, maxp) :
          prof \in YelpProfiles, maxp \in { 0, MaxPages } }

NoCfg == WithPagination(BaseProfile, FALSE, FALSE, FALSE, FALSE, 0)

\* ---- what a fetched page can hold, given what the source's selectors look at
Phone41 == << "4", "1" >>
Phone42 == << "4", "2" >>

Cards ==
    [ phone   : { None, Phone41 },
      email   : IF cfg.visit_website_for_email THEN { None, Email } ELSE { None },
      website : IF cfg.visit_website_for_email THEN { None, WebsiteUrl } ELSE { None },
      detail  : IF cfg.detail_link THEN BOOLEAN ELSE { FALSE },
      sels    : (SUBSET (1..cfg.item_selectors)) \ { {} } ]   \* the item selectors it matches

\* address.streetAddress of a JSON-LD object
Street == << "1 Main St" >>

JsonLdObjects ==
    { [ business |-> FALSE, telephone |-> << "tel:", "4", "2" >>, street |-> None ],
      [ business |-> TRUE,  telephone |-> None, street |-> None ],
      [ business |-> TRUE,  telephone |-> << "tel:", "4", "2" >>, street |-> None ],
      [ business |-> TRUE,  telephone |-> None, street |-> Street ] }

ListingPages ==
    [ cards  : SeqsUpTo(Cards, MaxCards),
      follow : IF cfg.follow_links THEN 0..1 ELSE { 0 },
      jsonld : IF cfg.jsonld_fallback THEN SeqsUpTo(JsonLdObjects, 1) ELSE { <<>> },
      tels   : IF cfg.scan_phones_on_page
               THEN { <<>>, << << "tel:", "4", "1" >> >>, << << "tel:", "4", "2" >>, << "tel:", " ", "4", "2" >> >> }
               ELSE { <<>> },
      next   : IF cfg.next_page_selector THEN BOOLEAN ELSE { FALSE } ]

DetailPages ==
    [ phone   : { None, Phone42 },
      email   : IF cfg.visit_website_for_email THEN { None, Email } ELSE { None },
      website : IF cfg.visit_website_for_email THEN { None, WebsiteUrl } ELSE { None },
      jsonld  : IF cfg.jsonld_fallback THEN SeqsUpTo(JsonLdObjects, 1) ELSE { <<>> } ]

WebsitePages == [ email : { None, Email }, contact : BOOLEAN ]

YelpBusinesses == [ phone : { None, << "4", " ", "1" >> }, url : BOOLEAN ]

YelpApiPages ==
    [ ok         : BOOLEAN,                \* the body parses and carries no "error"
      businesses : SeqsUpTo(YelpBusinesses, MaxCards),
      more       : BOOLEAN ]               \* next_offset < total

YelpBusinessPages == [ website : BOOLEAN ]

\* ---- requests
Request(cb, page, item, tried) == [ cb |-> cb, page |-> page, item |-> item, tried |-> tried ]

ListingRequest(k) == Request("parse_listing", k, NoItem, FALSE)

\* ---- the sources file and the run summary
\* what open() and the parser find at self.sources_file
SourcesFiles == { "ok", "unreadable", "bad_yaml", "bad_json" }

\* lines 66-73: open() raises, or yaml.safe_load does; json.load's exception
\* is caught at line 70 and data becomes {}
LoadRaises == sources_file.content \in { "unreadable", "bad_yaml" }

\* the file was read and parsed
Loaded == sources_file.content = "ok"

\* the "sources" list of a well-formed file: the source the crawl is about and
\* a disabled one
Sources == << [ name |-> "s", enabled |-> TRUE ], [ name |-> "d", enabled |-> FALSE ] >>

\* the names of the enabled sources only
_enabled_sources ==
    IF Loaded /\ pc # "start"
    THEN [ i \in 1..Len(SelectSeq(Sources, LAMBDA src : src.enabled)) |->
               SelectSeq(Sources, LAMBDA src : src.enabled)[i].name ]
    ELSE <<>>

\* self._configured_sources, lines 33 and 75
_configured_sources ==
    IF Loaded /\ pc # "start" THEN [ i \in 1..Len(Sources) |-> Sources[i].name ] ELSE <<>>

\* no summary file was written
NoSummary == [ written |-> FALSE, counts |-> <<>>, configured_sources |-> <<>> ]

\* dict(self._counts), line 671: a source has an entry once it was counted
CountsDict == IF _counts = 0 THEN <<>> ELSE [ name \in { "s" } |-> _counts ]

\* closed(), lines 652-674: the summary file it writes
closed == [ written |-> TRUE, counts |-> CountsDict, configured_sources |-> _configured_sources ]

\* what "last" holds before any listing page was processed
NoLast == [ page |-> 0, skipped |-> FALSE, produced |-> 0, emitted |-> 0, count |-> 0,
            current_count |-> 0, next_link |-> FALSE, next_param |-> FALSE ]

\* response.status: a success and a failure
Statuses == { 200, 500 }

\* not (200 <= int(response.status) < 300)
Non2xx(status) == ~(200 <= status /\ status < 300)

\* request.url
ReqUrl(req) ==
    IF req.cb = "parse_listing" THEN ListingUrl(req.page)
    ELSE IF req.cb = "parse_detail" THEN DetailUrl
    ELSE IF req.cb = "parse_yelp_api" THEN << "yelp-api" >>
    ELSE IF req.cb = "parse_yelp_business_page" THEN DetailUrl
    ELSE IF req.tried THEN << "http://w/contact" >>
    ELSE WebsiteUrl

\* the entry a callback appends to self._errors[source]
ErrorEntry(req, status, note) == [ url |-> ReqUrl(req), status |-> status, note |-> note ]

\* what "hop" holds before any callback has run
NoHop == [ cb |-> "none", req |-> Request("none", 0, NoItem, FALSE), pg |-> <<>>, status |-> 200,
           items |-> <<>>, reqs |-> {}, errs |-> <<>> ]

\* ---- parse_listing
\* the item built from one container, lines 323-349 and 381-384
CardItem(card, k, detail_url) ==
    [ NewItem EXCEPT !.source = << "s" >>,
                     !.listing_url = ListingUrl(k),
                     !.business_name = << "a" >>,
                     !.phone = U_normalize_phone(card.phone),
                     !.email = card.email,
                     !.website = card.website,
                     !.address = None,
                     !.detail_url = IF detail_url # None THEN detail_url ELSE Absent ]

\* lines 385-412 with the website fetch tried before the detail fetch
CardKindWebsiteFirst(item, detail_url) ==
    IF /\ Falsy(item.email)
       /\ ~Falsy(item.website)
       /\ cfg.visit_website_for_email
       /\ ~(cfg.skip_visited_details /\ item.phone \in _golden_phones)
    THEN "website"
    ELSE IF /\ detail_url # None
            /\ cfg.detail_fields
            /\ ~(cfg.skip_visited_details /\ detail_url \in _golden_detail_urls)
    THEN "detail"
    ELSE IF ~Falsy(item.phone)
    THEN "emit"
    ELSE "drop"

\* what becomes of a container's item, lines 385-412
CardKind(item, detail_url) ==
    IF /\ detail_url # None
       /\ cfg.detail_fields
       /\ ~(cfg.skip_visited_details /\ detail_url \in _golden_detail_urls)
    THEN "detail"
    ELSE IF /\ Falsy(item.email)
            /\ ~Falsy(item.website)
            /\ cfg.visit_website_for_email
            /\ ~(cfg.skip_visited_details /\ item.phone \in _golden_phones)
    THEN "website"
    ELSE IF ~Falsy(item.phone)
    THEN "emit"
    ELSE "drop"

\* detail_url of line 382
CardDetailUrl(card) == IF cfg.detail_link /\ card.detail THEN DetailUrl ELSE None

\* one item container, lines 323-412: the item built and what becomes of it
CardOutcome(card, k) ==
    [ kind |-> CardKind(CardItem(card, k, CardDetailUrl(card)), CardDetailUrl(card)),
      item |-> CardItem(card, k, CardDetailUrl(card)) ]

\* lines 374-378 left out: no phone is recorded as seen
CardSeenNever(item, acc) == acc

\* lines 374-378: the item's phone is recorded as seen
CardSeen(item, acc) ==
    [ acc EXCEPT !.seen = IF ~Falsy(item.phone) THEN @ \cup { item.phone } ELSE @ ]

\* one turn of the container loop on the outcome o
CardStep(o, acc) ==
    IF o.kind = "detail"
    THEN [ acc EXCEPT !.reqs = @ \cup { Request("parse_detail", 0, o.item, FALSE) } ]
    ELSE IF o.kind = "website"
    THEN [ acc EXCEPT !.reqs = @ \cup { Request("parse_website_email", 0, o.item, FALSE) } ]
    ELSE IF o.kind = "emit"
    THEN [ acc EXCEPT !.items = Append(@, o.item),
                      !.produced = @ + 1,
                      !.counts = @ + 1 ]
    ELSE acc

\* the containers in the order lines 321-322 visit them: selector by selector,
\* each with the containers it matches
RECURSIVE CardMatches(_, _)
CardMatches(cards, sel) ==
    IF sel > cfg.item_selectors THEN <<>>
    ELSE SelectSeq(cards, LAMBDA card : sel \in card.sels) \o CardMatches(cards, sel + 1)

\* the container loop, lines 320-412; acc carries what the callback has
\* yielded so far and its running produced, _counts and _seen_phones
RECURSIVE DoCards(_, _, _)
DoCards(cards, k, acc) ==
    IF cards = <<>> THEN acc
    ELSE DoCards(Tail(cards), k,
                 CardStep(CardOutcome(Head(cards), k),
                          CardSeen(CardOutcome(Head(cards), k).item, acc)))

\* follow_links_selector, lines 414-435: one parse_detail request per link
DoFollow(n, k, acc) ==
    IF n = 0 THEN acc
    ELSE LET base_item == [ NewItem EXCEPT !.source = << "s" >>, !.listing_url = ListingUrl(k) ]
         IN  [ acc EXCEPT !.reqs = @ \cup { Request("parse_detail", 0, base_item, FALSE) },
                          !.produced = @ + n ]

JsonLdItem(obj, k) ==
    [ NewItem EXCEPT !.source = << "s" >>,
                     !.listing_url = ListingUrl(k),
                     !.business_name = << "a" >>,
                     !.phone = IF obj.telephone # None THEN U_normalize_phone(obj.telephone) ELSE None,
                     !.email = None,
                     !.website = None ]

\* one JSON-LD object, lines 440-466
JsonLdStep(business, item, acc) ==
    IF business /\ ~Falsy(item.phone)
    THEN [ acc EXCEPT !.items = Append(@, item),
                      !.produced = @ + 1,
                      !.counts = @ + 1 ]
    ELSE acc

\* JSON-LD fallback, lines 437-466
RECURSIVE DoJsonLd(_, _, _)
DoJsonLd(objs, k, acc) ==
    IF objs = <<>> THEN acc
    ELSE DoJsonLd(Tail(objs), k, JsonLdStep(Head(objs).business, JsonLdItem(Head(objs), k), acc))

\* one tel: anchor, lines 472-505
ScanStep(phone_norm, k, acc) ==
    IF Falsy(phone_norm) \/ phone_norm \in acc.seen
    THEN acc
    ELSE [ acc EXCEPT !.items = Append(@, [ NewItem EXCEPT !.source = << "s" >>,
                                                          !.listing_url = ListingUrl(k),
                                                          !.phone = phone_norm,
                                                          !.business_name = None,
                                                          !.address = None ]),
                      !.counts = @ + 1,
                      !.seen = @ \cup { phone_norm } ]

\* page-wide tel: scan, lines 468-507
RECURSIVE DoScan(_, _, _)
DoScan(tels, k, acc) ==
    IF tels = <<>> THEN acc
    ELSE DoScan(Tail(tels), k, ScanStep(U_normalize_phone(Head(tels)), k, acc))

\* need_more of line 528 replaced by a constant False
NeedMoreNever(current_count) == FALSE

\* need_more, line 528
NeedMore(current_count) == min_per_source # 0 /\ current_count < min_per_source

\* the page cap of line 529 left out
WithinMaxPagesAlways(nxt) == TRUE

\* (max_pages and nxt <= max_pages), line 529
WithinMaxPages(nxt) == cfg.max_pages # 0 /\ nxt <= cfg.max_pages

\* current_count, line 527
CurrentCount(acc) == acc.counts + acc.produced

\* query-parameter pagination, lines 518-532: is the next page requested
ParamNext(k, acc) ==
    /\ cfg.param
    /\ WithinMaxPages(k + 1)
    /\ (NeedMore(CurrentCount(acc)) \/ acc.produced > 0)

\* the skip_visited_listings branch, lines 298-318, is taken and returns
SkipReturns(k, pg) ==
    /\ cfg.skip_visited_listings
    /\ ListingUrl(k) \in _golden_listing_urls
    /\ (cfg.next_page_selector /\ pg.next) \/ cfg.param

\* the callback's tallies before it has looked at the page
Acc0 == [ items |-> <<>>, reqs |-> {}, produced |-> 0, counts |-> _counts, seen |-> _seen_phones ]

\* lines 437-438: the JSON-LD fallback runs only when nothing was produced
AfterJsonLd(pg, k, acc) ==
    IF acc.produced = 0 /\ cfg.jsonld_fallback THEN DoJsonLd(pg.jsonld, k, acc) ELSE acc

\* line 469
AfterScan(pg, k, acc) ==
    IF cfg.scan_phones_on_page THEN DoScan(pg.tels, k, acc) ELSE acc

\* lines 509-532: both pagination strategies, applied to what the page gave
Paginate(k, acc, next_link, next_param) ==
    [ acc |-> [ acc EXCEPT !.reqs = @ \cup (IF next_link \/ next_param
                                            THEN { ListingRequest(k + 1) } ELSE {}) ],
      skipped |-> FALSE,
      next_link |-> next_link,
      next_param |-> next_param ]

\* lines 320-532, with acc what the extraction steps gave
PaginateAfter(pg, k, acc) ==
    Paginate(k, acc, cfg.next_page_selector /\ pg.next, ParamNext(k, acc))

\* parse_listing(response) for the listing page with cursor k and content pg
parse_listing(k, pg) ==
    IF SkipReturns(k, pg)
    THEN [ acc |-> [ Acc0 EXCEPT !.reqs = { ListingRequest(k + 1) } ],
           skipped |-> TRUE,
           next_link |-> (cfg.next_page_selector /\ pg.next),
           next_param |-> ~(cfg.next_page_selector /\ pg.next) ]
    ELSE PaginateAfter(pg, k,
             AfterScan(pg, k,
                 AfterJsonLd(pg, k,
                     DoFollow(pg.follow, k,
                         DoCards(CardMatches(pg.cards, 1), k, Acc0)))))

\* ---- the other callbacks
\* item[field] = val if val (fill, lines 554-557)
Fill(item, field, val) == IF ~Falsy(val) THEN [ item EXCEPT ![field] = val ] ELSE item

\* item[field] = val in the place of item.setdefault(field, val)
SetDefaultAlways(item, field, val) == [ item EXCEPT ![field] = val ]

\* item.setdefault(field, val)
SetDefault(item, field, val) == IF item[field] = Absent THEN [ item EXCEPT ![field] = val ] ELSE item

\* lines 586-587: telephone is taken only when the item has no phone
EnrichPhone(item, telephone) ==
    IF Falsy(item.phone) /\ telephone # None
    THEN [ item EXCEPT !.phone = U_normalize_phone(telephone) ] ELSE item

\* lines 589-590: the object carries no url in the pages modelled
EnrichWebsite(item) == IF Falsy(item.website) THEN [ item EXCEPT !.website = None ] ELSE item

\* JSON-LD enrichment of parse_detail, lines 577-599, for one object
Enrich(item, obj) ==
    IF ~obj.business THEN item
    ELSE SetDefault(
             EnrichWebsite(
                 SetDefault(
                     EnrichPhone(SetDefault(item, "business_name", << "a" >>), obj.telephone),
                     "email", None)),
             "address", obj.street)

RECURSIVE EnrichAll(_, _)
EnrichAll(item, objs) ==
    IF objs = <<>> THEN item ELSE EnrichAll(Enrich(item, Head(objs)), Tail(objs))

\* lines 561-566: email is looked for only when the item has none
DetailEmail(item, email) ==
    IF ~Falsy(item.email) THEN item
    ELSE IF ~Falsy(email) THEN [ item EXCEPT !.email = email ]
    ELSE [ item EXCEPT !.email = None ]

\* lines 567-571
DetailWebsite(item, website) ==
    IF Falsy(item.website) /\ website # None THEN [ item EXCEPT !.website = website ] ELSE item

\* lines 577-578
DetailJsonLd(item, objs) == IF cfg.jsonld_fallback THEN EnrichAll(item, objs) ELSE item

\* the item after selector extraction, lines 552-575
DetailSelectors(item, pg) ==
    DetailWebsite(
        DetailEmail(
            Fill([ item EXCEPT !.detail_url = DetailUrl ], "phone", pg.phone),
            pg.email),
        pg.website)

\* the item parse_detail ends up with, lines 547-599
DetailItem(item, pg) == DetailJsonLd(DetailSelectors(item, pg), pg.jsonld)

\* the phone gate of lines 615, 647, 210, 279 left out: the item is yielded anyway
EmitIfPhoneAlways(item) == << item >>

\* "if item.get('phone'): self._counts[src] += 1; yield item"
EmitIfPhone(item) == IF ~Falsy(item.phone) THEN << item >> ELSE <<>>

\* lines 601-618 with the "else" of line 611 left out: the item is yielded
\* next to the website request that carries it
DetailYieldBoth(it) ==
    IF /\ Falsy(it.email)
       /\ ~Falsy(it.website)
       /\ cfg.visit_website_for_email
       /\ ~(cfg.skip_visited_details /\ it.phone \in _golden_phones)
    THEN [ items |-> EmitIfPhone(it), reqs |-> { Request("parse_website_email", 0, it, FALSE) } ]
    ELSE [ items |-> EmitIfPhone(it), reqs |-> {} ]

\* lines 601-618, with it the item after extraction
DetailYield(it) ==
    IF /\ Falsy(it.email)
       /\ ~Falsy(it.website)
       /\ cfg.visit_website_for_email
       /\ ~(cfg.skip_visited_details /\ it.phone \in _golden_phones)
    THEN [ items |-> <<>>, reqs |-> { Request("parse_website_email", 0, it, FALSE) } ]
    ELSE [ items |-> EmitIfPhone(it), reqs |-> {} ]

\* parse_detail: what it yields
parse_detail(item, pg) == DetailYield(DetailItem(item, pg))

\* lines 629-650 without the _contact_tried test of line 630
WebsiteYieldRetry(it, tried_contact, contact) ==
    IF Falsy(it.email) /\ cfg.visit_contact_page /\ contact
    THEN [ items |-> <<>>, reqs |-> { Request("parse_website_email", 0, it, TRUE) } ]
    ELSE [ items |-> EmitIfPhone(it), reqs |-> {} ]

\* lines 629-650, with it the item after the page's email was looked up
WebsiteYield(it, tried_contact, contact) ==
    IF Falsy(it.email) /\ ~tried_contact /\ cfg.visit_contact_page /\ contact
    THEN [ items |-> <<>>, reqs |-> { Request("parse_website_email", 0, it, TRUE) } ]
    ELSE [ items |-> EmitIfPhone(it), reqs |-> {} ]

\* parse_website_email: what it yields
parse_website_email(item, tried_contact, pg) ==
    WebsiteYield(IF Falsy(item.email) /\ pg.email # None THEN [ item EXCEPT !.email = pg.email ] ELSE item,
                 tried_contact, pg.contact)

YelpItem(biz) ==
    [ NewItem EXCEPT !.source = << "s" >>,
                     !.listing_url = << "yelp-api" >>,
                     !.detail_url = IF biz.url THEN DetailUrl ELSE None,
                     !.business_name = << "a" >>,
                     !.phone = IF biz.phone # None THEN U_normalize_phone(biz.phone) ELSE None ]

\* one business, lines 197-213
BusinessStep(item, acc) ==
    IF cfg.visit_website_for_email /\ ~Falsy(item.detail_url)
    THEN [ acc EXCEPT !.reqs = @ \cup { Request("parse_yelp_business_page", 0, item, FALSE) },
                      !.produced = @ + 1 ]
    ELSE [ acc EXCEPT !.items = @ \o EmitIfPhone(item),
                      !.counts = @ + Len(EmitIfPhone(item)),
                      !.produced = @ + Len(EmitIfPhone(item)) ]

\* the business loop of parse_yelp_api, lines 174-213
RECURSIVE DoBusinesses(_, _)
DoBusinesses(bs, acc) ==
    IF bs = <<>> THEN acc ELSE DoBusinesses(Tail(bs), BusinessStep(YelpItem(Head(bs)), acc))

\* max_pages = int(src.get("max_pages") or 1), line 95
YelpMaxPages == IF cfg.max_pages = 0 THEN 1 ELSE cfg.max_pages

\* lines 215-245: the next API page
YelpPaginate(page, more, acc) ==
    IF acc.produced > 0 /\ page < YelpMaxPages /\ more
    THEN [ acc EXCEPT !.reqs = @ \cup { Request("parse_yelp_api", page + 1, NoItem, FALSE) } ]
    ELSE acc

\* parse_yelp_api for API page number page
parse_yelp_api(page, pg) ==
    IF ~pg.ok THEN Acc0 ELSE YelpPaginate(page, pg.more, DoBusinesses(pg.businesses, Acc0))

\* lines 267-282, with it the item after the website lookup
BusinessPageYield(it) ==
    IF Falsy(it.email) /\ ~Falsy(it.website) /\ cfg.visit_website_for_email
    THEN [ items |-> <<>>, reqs |-> { Request("parse_website_email", 0, it, FALSE) } ]
    ELSE [ items |-> EmitIfPhone(it), reqs |-> {} ]

\* parse_yelp_business_page: what it yields
parse_yelp_business_page(item, pg) ==
    BusinessPageYield(IF pg.website THEN [ item EXCEPT !.website = WebsiteUrl ] ELSE item)

\* ---------------------------------------------------------------- store actions
\* nothing is running and no file exists
IdleState ==
    /\ golden = <<>>
    /\ runs = [ f \in Files |-> <<>> ]
    /\ order = <<>>
    /\ pc = "idle"
    /\ caller = "cli"
    /\ cur = 0
    /\ viaApp = FALSE
    /\ golden_rows = <<>>
    /\ todo = <<>>
    /\ lastMainCount = -1
    /\ dirty = FALSE
    /\ merges = 0
    /\ fault = "none"
    /\ cfg = NoCfg
    /\ min_per_source = 0
    /\ queue = {}
    /\ requested = {}
    /\ _counts = 0
    /\ _seen_phones = {}
    /\ feed = <<>>
    /\ last = NoLast
    /\ _errors = <<>>
    /\ hop = NoHop
    /\ sources_file = [ content |-> "ok", raised |-> FALSE ]
    /\ summary = NoSummary

StoreInit ==
    /\ IdleState
    /\ jobs = NoJobs
    /\ arg = NoArg
    /\ ret = NoRet

\* run_spider.main up to process.start() returning: the crawl has written its
\* feed to a new providers-<ts>.csv and, for a Yelp source, closed() has
\* written providers-<ts>-yelp_api_overview.csv; then build_golden_main()
SpiderRun(f, rows, yelp, app) ==
    /\ pc = "idle"
    /\ ~ \E i \in 1..Len(order) : order[i] = f
    /\ runs' = [ runs EXCEPT ![f] = rows,
                             ![YelpFile(f)] = IF yelp THEN << YelpOverviewRow >> ELSE @ ]
    /\ order' = IF yelp THEN Touch(Touch(order, YelpFile(f)), f) ELSE Touch(order, f)
    /\ pc' = "build"
    /\ caller' = "spider"
    /\ cur' = f
    /\ viaApp' = app
    /\ dirty' = TRUE
    /\ merges' = 0
    /\ fault' = "none"
    /\ UNCHANGED << golden, golden_rows, todo, lastMainCount, crawlVars, pureVars, jobs >>

\* python3 golden_record_gen.py
CliMain ==
    /\ pc = "idle"
    /\ pc' = "build"
    /\ caller' = "cli"
    /\ cur' = 0
    /\ viaApp' = FALSE
    /\ merges' = 0
    /\ fault' = "none"
    /\ UNCHANGED << golden, runs, order, golden_rows, todo, lastMainCount, dirty, crawlVars, pureVars, jobs >>

\* the golden file as a read of it returns it: read_csv_rows swallows the
\* exception and returns no rows (lines 61-62)
ReadGolden(f) == IF f = "read" THEN <<>> ELSE read_csv_rows(golden)

\* lines 171-179 with the rows build_golden returned
MainWrite(built) ==
    /\ Len(built) <= MaxGolden
    /\ golden_rows' = built
    /\ golden' = write_csv_rows(built)
    /\ todo' = collect_input_csvs
    /\ pc' = "augment"
    /\ UNCHANGED << lastMainCount, dirty >>

\* write_csv_rows(GOLDEN_CSV, ...) of line 172 raises: main is left, and
\* run_spider.main's handler of lines 88-90 swallows the exception
MainWriteFails ==
    /\ pc' = IF caller = "spider" /\ viaApp THEN "app_merge" ELSE "idle"
    /\ UNCHANGED << golden, golden_rows, todo, lastMainCount, dirty >>

\* golden_record_gen.main, lines 164-179: build, write the golden file, list the
\* run CSVs for the augment loop; f is the I/O failure the golden file meets
MainBuild(f) ==
    /\ pc = "build"
    /\ IF f = "write"
       THEN MainWriteFails
       ELSE MainWrite(build_golden(ReadGolden(f), runs, collect_input_csvs))
    /\ merges' = merges + 1
    /\ fault' = f
    /\ UNCHANGED << runs, order, caller, cur, viaApp, crawlVars, pureVars, jobs >>

\* lines 180-182 with the file p as augment_csv_with_golden leaves it
AugmentWrite(p, after) ==
    /\ Len(after) <= MaxFileRows
    /\ runs' = [ runs EXCEPT ![p] = after ]
    /\ order' = IF after # runs[p] THEN Touch(order, p) ELSE order

\* one iteration of main's loop, lines 179-182
MainAugment ==
    /\ pc = "augment"
    /\ todo # <<>>
    /\ AugmentWrite(Head(todo), augment_csv_with_golden(runs[Head(todo)], golden_rows))
    /\ todo' = Tail(todo)
    /\ fault' = "none"
    /\ UNCHANGED << golden, pc, caller, cur, viaApp, golden_rows, lastMainCount, dirty, merges, crawlVars, pureVars, jobs >>

\* main returns, lines 183-185
MainDone ==
    /\ pc = "augment"
    /\ todo = <<>>
    /\ pc' = IF caller = "spider" THEN "spider_aug" ELSE "idle"
    /\ lastMainCount' = Len(golden)
    /\ dirty' = FALSE
    /\ golden_rows' = <<>>
    /\ fault' = "none"
    /\ UNCHANGED << golden, runs, order, caller, cur, viaApp, todo, merges, crawlVars, pureVars, jobs >>

\* lines 84-85 with the run's CSV as the augment leaves it
SpiderAugmentWrite(after) ==
    /\ AugmentWrite(cur, after)
    /\ dirty' = (dirty \/ after # runs[cur])

\* run_spider.main, lines 63-87: augment this run's CSV from the golden file
SpiderAugment(f) ==
    /\ pc = "spider_aug"
    /\ SpiderAugmentWrite(augment_csv_with_golden(runs[cur], ReadGolden(f)))
    /\ pc' = IF viaApp THEN "app_merge" ELSE "idle"
    /\ fault' = f
    /\ UNCHANGED << golden, caller, cur, viaApp, golden_rows, todo, lastMainCount, merges, crawlVars, pureVars, jobs >>

\* app.update_golden_and_augment, lines 407-409: the run's CSV is written
\* first, the golden file second; a failure of the second write is swallowed
\* by lines 410-412 after the first has happened
AppWrite(combined, f) ==
    /\ Len(combined) <= MaxGolden
    /\ runs' = [ runs EXCEPT ![cur] = write_csv_rows(combined) ]
    /\ golden' = IF f = "write" THEN golden ELSE write_csv_rows(combined)

\* app.update_golden_and_augment(csv_path), called by run_scrape and by the
\* background-job poller once the run_spider process has ended
UpdateGoldenAndAugment(f) ==
    /\ pc = "app_merge"
    /\ AppWrite(Combined(ReadGolden(f), runs[cur]), f)
    /\ order' = Touch(order, cur)
    /\ dirty' = TRUE
    /\ pc' = "idle"
    /\ merges' = merges + 1
    /\ fault' = f
    /\ UNCHANGED << caller, cur, viaApp, golden_rows, todo, lastMainCount, crawlVars, pureVars, jobs >>

\* what can go wrong with the golden file: nothing, a read, a write
Faults == { "none", "read", "write" }

MergeNext ==
    \/ \E f \in Faults : MainBuild(f)
    \/ MainAugment
    \/ MainDone
    \/ \E f \in Faults \ { "write" } : SpiderAugment(f)
    \/ \E f \in Faults : UpdateGoldenAndAugment(f)

StoreNext ==
    \/ \E f \in RunFiles, rows \in SeqsUpTo(ItemRows, MaxRunRows), yelp \in BOOLEAN, app \in BOOLEAN :
           SpiderRun(f, rows, yelp, app)
    \/ CliMain
    \/ MergeNext

SpecStore == StoreInit /\ [][StoreNext]_vars

\* ---------------------------------------------------------------- crawl actions
\* golden files earlier runs can have left: one row per listing page 1..n
GoldenOfPages(n) ==
    [ i \in 1..n |-> [ Item(<< "a" >>, Phone41) EXCEPT !.listing_url = ListingUrl(i),
                                                       !.detail_url = DetailUrl ] ]

CrawlInit ==
    /\ cfg \in Configs
    /\ golden \in { GoldenOfPages(n) : n \in IF cfg.skip_visited_listings THEN 0..MaxPages ELSE 0..1 }
    /\ min_per_source \in IF cfg.param /\ cfg.max_pages # 0 THEN { 0, MinTarget } ELSE { 0 }
    /\ runs = [ f \in Files |-> <<>> ]
    /\ order = <<>>
    /\ pc = "start"
    /\ caller = "spider"
    /\ cur = 1
    /\ viaApp = FALSE
    /\ golden_rows = <<>>
    /\ todo = <<>>
    /\ lastMainCount = -1
    /\ dirty = FALSE
    /\ queue = {}
    /\ requested = {}
    /\ _counts = 0
    /\ _seen_phones = {}
    /\ feed = <<>>
    /\ last = NoLast
    /\ merges = 0
    /\ fault = "none"
    /\ _errors = <<>>
    /\ hop = NoHop
    /\ sources_file \in { [ content |-> c, raised |-> FALSE ] :
                             c \in IF cfg = NoCfg THEN SourcesFiles ELSE { "ok" } }
    /\ summary = NoSummary
    /\ arg = NoArg
    /\ ret = NoRet
    /\ jobs = NoJobs

\* the requests start_requests yields, lines 74-137: one start URL (or one
\* Yelp location) of the enabled source; none when self.sources is empty
StartQueue ==
    IF ~Loaded THEN {}
    ELSE IF cfg.api THEN { Request("parse_yelp_api", 1, NoItem, FALSE) }
    ELSE { ListingRequest(1) }

\* start_requests, lines 64-137. Where loading the sources file raises, the
\* exception leaves the generator before anything is yielded; whether the
\* process then ends ("aborted") or the crawl is closed as one with nothing
\* to fetch is up to the crawler framework, and "ends" is either
StartRequests(ends) ==
    /\ pc = "start"
    /\ ends \in IF LoadRaises THEN { "crawl", "aborted" } ELSE { "crawl" }
    /\ pc' = ends
    /\ sources_file' = [ sources_file EXCEPT !.raised = LoadRaises ]
    /\ queue' = StartQueue
    /\ requested' = IF cfg.api \/ ~Loaded THEN {} ELSE { 1 }
    /\ UNCHANGED << pureVars, jobs, golden, runs, order, caller, cur, viaApp, golden_rows, todo, lastMainCount, dirty, merges,
                    fault, cfg, min_per_source, _counts, _seen_phones, feed, last, _errors, hop, summary >>

\* what every callback does with its result: items go to the feed, requests
\* to the scheduler
Deliver(req, items, reqs, counts, seen) ==
    /\ Len(feed) + Len(items) <= MaxFeed
    /\ \A r \in reqs : r.page <= MaxCursor
    /\ feed' = feed \o items
    /\ queue' = (queue \ { req }) \cup reqs
    /\ requested' = requested \cup { r.page : r \in { q \in reqs : q.cb = "parse_listing" } }
    /\ _counts' = counts
    /\ _seen_phones' = seen

\* what a callback leaves behind besides its yield: the error entries errs in
\* self._errors, and the record of the call in hop
Record(req, pg, status, items, reqs, errs) ==
    /\ Len(_errors) + Len(errs) <= MaxErrors
    /\ _errors' = _errors \o errs
    /\ hop' = [ cb |-> req.cb, req |-> req, pg |-> pg, status |-> status,
                items |-> items, reqs |-> reqs, errs |-> errs ]

\* parse_listing, lines 291-296
ListingErrors(req, status) ==
    IF Non2xx(status) THEN << ErrorEntry(req, status, "Non-2xx listing page") >> ELSE <<>>

\* parse_detail, lines 535-546
DetailErrors(req, status) ==
    IF Non2xx(status) /\ ~Falsy(req.item.source)
    THEN << ErrorEntry(req, status, "Non-2xx detail page") >> ELSE <<>>

\* parse_yelp_api, lines 141-160: the body does not parse or carries "error"
YelpErrors(req, ok, status) ==
    IF ~ok THEN << ErrorEntry(req, status, "Yelp API error") >> ELSE <<>>

\* parse_listing returning at line 296, right after it has recorded the error
DeliverListingHalt(req, pg, status, res) ==
    /\ Deliver(req,
               IF Non2xx(status) THEN <<>> ELSE res.acc.items,
               IF Non2xx(status) THEN {} ELSE res.acc.reqs,
               IF Non2xx(status) THEN _counts ELSE res.acc.counts,
               IF Non2xx(status) THEN _seen_phones ELSE res.acc.seen)
    /\ last' = [ page |-> req.page, skipped |-> res.skipped,
                 produced |-> res.acc.produced, emitted |-> Len(res.acc.items),
                 count |-> res.acc.counts,
                 current_count |-> CurrentCount(res.acc),
                 next_link |-> res.next_link, next_param |-> res.next_param ]
    /\ Record(req, pg, status,
              IF Non2xx(status) THEN <<>> ELSE res.acc.items,
              IF Non2xx(status) THEN {} ELSE res.acc.reqs,
              ListingErrors(req, status))

\* a listing callback's result res is delivered and remembered in last
DeliverListing(req, pg, status, res) ==
    /\ Deliver(req, res.acc.items, res.acc.reqs, res.acc.counts, res.acc.seen)
    /\ last' = [ page |-> req.page, skipped |-> res.skipped,
                 produced |-> res.acc.produced, emitted |-> Len(res.acc.items),
                 count |-> res.acc.counts,
                 current_count |-> CurrentCount(res.acc),
                 next_link |-> res.next_link, next_param |-> res.next_param ]
    /\ Record(req, pg, status, res.acc.items, res.acc.reqs, ListingErrors(req, status))

\* the result res of a callback that counts each item it yields
DeliverItems(req, pg, status, res, errs) ==
    /\ Deliver(req, res.items, res.reqs, _counts + Len(res.items), _seen_phones)
    /\ Record(req, pg, status, res.items, res.reqs, errs)

\* the result acc of parse_yelp_api
DeliverAcc(req, pg, status, acc) ==
    /\ Deliver(req, acc.items, acc.reqs, acc.counts, acc.seen)
    /\ Record(req, pg, status, acc.items, acc.reqs, YelpErrors(req, pg.ok, status))

ParseListing(req, pg, status) ==
    /\ pc = "crawl"
    /\ req \in queue
    /\ req.cb = "parse_listing"
    /\ DeliverListing(req, pg, status, parse_listing(req.page, pg))
    /\ UNCHANGED << pureVars, jobs, storeVars, sources_file, summary, cfg, min_per_source >>

ParseDetail(req, pg, status) ==
    /\ pc = "crawl"
    /\ req \in queue
    /\ req.cb = "parse_detail"
    /\ DeliverItems(req, pg, status, parse_detail(req.item, pg), DetailErrors(req, status))
    /\ UNCHANGED << pureVars, jobs, storeVars, sources_file, summary, cfg, min_per_source, last >>

ParseWebsiteEmail(req, pg, status) ==
    /\ pc = "crawl"
    /\ req \in queue
    /\ req.cb = "parse_website_email"
    /\ DeliverItems(req, pg, status, parse_website_email(req.item, req.tried, pg), <<>>)
    /\ UNCHANGED << pureVars, jobs, storeVars, sources_file, summary, cfg, min_per_source, last >>

ParseYelpApi(req, pg, status) ==
    /\ pc = "crawl"
    /\ req \in queue
    /\ req.cb = "parse_yelp_api"
    /\ DeliverAcc(req, pg, status, parse_yelp_api(req.page, pg))
    /\ UNCHANGED << pureVars, jobs, storeVars, sources_file, summary, cfg, min_per_source, last >>

ParseYelpBusinessPage(req, pg, status) ==
    /\ pc = "crawl"
    /\ req \in queue
    /\ req.cb = "parse_yelp_business_page"
    /\ DeliverItems(req, pg, status, parse_yelp_business_page(req.item, pg), <<>>)
    /\ UNCHANGED << pureVars, jobs, storeVars, sources_file, summary, cfg, min_per_source, last >>

\* the entry on_error appends, lines 742-749
FailureEntry(req) == [ url |-> ReqUrl(req), error |-> "failure", type |-> "Failure" ]

\* on_error, lines 725-749: the request failed in transport; nothing is yielded
OnError(req) ==
    /\ pc = "crawl"
    /\ req \in queue
    /\ queue' = queue \ { req }
    /\ Len(_errors) < MaxErrors
    /\ _errors' = Append(_errors, FailureEntry(req))
    /\ hop' = [ cb |-> "on_error", req |-> req, pg |-> <<>>, status |-> 0,
                items |-> <<>>, reqs |-> {}, errs |-> << FailureEntry(req) >> ]
    /\ UNCHANGED << pureVars, jobs, storeVars, sources_file, summary, cfg, min_per_source, requested, _counts, _seen_phones, feed, last >>

\* the crawl ends with no request left: closed() runs, process.start() returns
\* with the feed in the run's CSV, and run_spider.main goes on to
\* build_golden_main(); app is whether app.run_scrape launched the run, sf
\* whether --summary was given (app.py always gives it). The spider object and what it
\* remembered of its callbacks are gone; the feed and its count stay on record
CloseSpider(app, sf) ==
    /\ pc = "crawl"
    /\ queue = {}
    /\ app => sf
    /\ summary' = IF sf THEN closed ELSE NoSummary
    /\ runs' = [ runs EXCEPT ![cur] = [ i \in 1..Len(feed) |-> FeedRow(feed[i]) ],
                             ![YelpFile(cur)] = IF cfg.api /\ sf THEN << YelpOverviewRow >> ELSE @ ]
    /\ order' = IF cfg.api /\ sf THEN Touch(Touch(order, YelpFile(cur)), cur) ELSE Touch(order, cur)
    /\ pc' = "build"
    /\ viaApp' = app
    /\ dirty' = TRUE
    /\ queue' = {}
    /\ requested' = {}
    /\ _seen_phones' = {}
    /\ last' = NoLast
    /\ _errors' = <<>>
    /\ hop' = NoHop
    /\ UNCHANGED << pureVars, jobs, golden, caller, cur, golden_rows, todo, lastMainCount, merges, fault,
                    cfg, min_per_source, _counts, feed, sources_file >>

CrawlNext ==
    \/ \E ends \in { "crawl", "aborted" } : StartRequests(ends)
    \/ \E req \in queue, pg \in ListingPages, status \in Statuses : ParseListing(req, pg, status)
    \/ \E req \in queue, pg \in DetailPages, status \in Statuses : ParseDetail(req, pg, status)
    \/ \E req \in queue, pg \in WebsitePages, status \in Statuses : ParseWebsiteEmail(req, pg, status)
    \/ \E req \in queue, pg \in YelpApiPages, status \in Statuses : ParseYelpApi(req, pg, status)
    \/ \E req \in queue, pg \in YelpBusinessPages, status \in Statuses :
           ParseYelpBusinessPage(req, pg, status)
    \/ \E req \in queue : OnError(req)
    \/ \E app \in BOOLEAN, sf \in BOOLEAN : CloseSpider(app, sf)
    \/ MergeNext

SpecCrawl == CrawlInit /\ [][CrawlNext]_vars

\* ---------------------------------------------------------------- library functions
MaxPhoneLen == 3      \* tokens in a phone string handed to a normalizer
MaxChain    == 3      \* expressions in a selector chain
MaxRows     == 2      \* rows handed to write_csv_rows

\* re.sub(r"\s+", " ", s)
RECURSIVE Collapse(_)
Collapse(s) ==
    IF s = <<>> THEN <<>>
    ELSE IF Head(s) \in Whitespace THEN << " " >> \o Collapse(LStrip(s))
    ELSE << Head(s) >> \o Collapse(Tail(s))

\* scraper.utils.clean_text
clean_text(s) == Strip(Collapse(s))

\* extract_first going on to the next expression when the cleaned value is empty
RECURSIVE extract_first_cleaned(_)
extract_first_cleaned(vals) ==
    IF vals = <<>> THEN None
    ELSE IF clean_text(Head(vals)) # <<>> THEN clean_text(Head(vals))
    ELSE extract_first_cleaned(Tail(vals))

\* scraper.utils.extract_first; vals[i] is what selector.css(sel).get() gives
\* for the i-th expression of the chain
RECURSIVE extract_first(_)
extract_first(vals) ==
    IF vals = <<>> THEN None
    ELSE IF Head(vals) # <<>> THEN clean_text(Head(vals))
    ELSE extract_first(Tail(vals))

\* scraper.utils.extract_attr; vals[i] is what the i-th expression, with
\* ::attr(attr) added where it has none, gives
RECURSIVE extract_attr(_)
extract_attr(vals) ==
    IF vals = <<>> THEN None
    ELSE IF Head(vals) # <<>> THEN clean_text(Head(vals))
    ELSE extract_attr(Tail(vals))

\* ---- the arguments the functions are called with
PhoneTokens == { "tel:", " ", "-", "(", "+", "4" }

PhonePairs ==
    { << p, q >> : p \in SeqsUpTo(PhoneTokens, MaxPhoneLen),
                   q \in SeqsUpTo(PhoneTokens, MaxPhoneLen - 1) }

\* what one expression of a chain can give on a node
RawValues == { None, << " " >>, << "X" >>, << "Y" >>, << " ", "X", " ", " ", "Y" >> }

Chains == SeqsUpTo(RawValues, MaxChain)

\* field values, one of them holding the two separator characters of the key
FieldValues == { None, << "x" >>, << "y" >>, << "x", "U+241F", "phone", "U+241E", "y" >> }

DictsOver(cols, values) == UNION { [ ks -> values ] : ks \in SUBSET cols }

RecordPairs ==
    { << r1, r2 >> : r1 \in DictsOver({ "email", "phone" }, FieldValues),
                     r2 \in DictsOver({ "email", "phone" }, FieldValues) }

WriteCols == { "phone", "source", "category", "api_requests", "businesses" }

RowLists == SeqsUpTo(DictsOver(WriteCols, { << "x" >> }) \ { << >> }, MaxRows)

PureArgs ==
    { [ kind |-> "phones", v |-> x ] : x \in PhonePairs }
    \cup { [ kind |-> "chain", v |-> x ] : x \in Chains }
    \cup { [ kind |-> "records", v |-> x ] : x \in RecordPairs }
    \cup { [ kind |-> "rows", v |-> x ] : x \in RowLists }

PureInit ==
    /\ IdleState
    /\ jobs = NoJobs
    /\ arg \in PureArgs
    /\ ret = NoRet

\* what the next call of a normalizer is given: the argument, or what the
\* previous call returned
NextIn == IF ret.n = 0 THEN arg.v ELSE ret.val

Returns(fn, given, val) ==
    /\ ret' = [ fn |-> fn, n |-> ret.n + 1, prev |-> given, val |-> val ]
    /\ UNCHANGED << storeVars, crawlVars, arg, jobs >>

\* scraper.utils.normalize_phone on both strings of the pair, up to twice over
CallUtilsNormalizePhone ==
    /\ arg.kind = "phones"
    /\ ret.fn \in { "none", "U.normalize_phone" }
    /\ ret.n < 2
    /\ Returns("U.normalize_phone", NextIn,
               << U_normalize_phone(NextIn[1]), U_normalize_phone(NextIn[2]) >>)

\* golden_record_gen.normalize_phone on both strings of the pair, up to twice over
CallGoldenNormalizePhone ==
    /\ arg.kind = "phones"
    /\ ret.fn \in { "none", "normalize_phone" }
    /\ ret.n < 2
    /\ Returns("normalize_phone", NextIn,
               << normalize_phone(NextIn[1]), normalize_phone(NextIn[2]) >>)

CallExtractFirst ==
    /\ arg.kind = "chain"
    /\ ret.fn = "none"
    /\ Returns("extract_first", arg.v, extract_first(arg.v))

CallExtractAttr ==
    /\ arg.kind = "chain"
    /\ ret.fn = "none"
    /\ Returns("extract_attr", arg.v, extract_attr(arg.v))

CallCanonRowKey ==
    /\ arg.kind = "records"
    /\ ret.fn = "none"
    /\ Returns("_canon_row_key", arg.v, << _canon_row_key(arg.v[1]), _canon_row_key(arg.v[2]) >>)

CallWriteCsvRows ==
    /\ arg.kind = "rows"
    /\ ret.fn = "none"
    /\ Returns("write_csv_rows", arg.v,
               [ header |-> fieldnames(arg.v), rows |-> write_csv_rows(arg.v) ])

PureNext ==
    \/ CallUtilsNormalizePhone
    \/ CallGoldenNormalizePhone
    \/ CallExtractFirst
    \/ CallExtractAttr
    \/ CallCanonRowKey
    \/ CallWriteCsvRows

SpecPure == PureInit /\ [][PureNext]_vars

\* ---------------------------------------------------------------- merges side by side
\* Two runs end within moments of one another, each in a process of its own
\* (run_spider.py, started from a shell or by app.py), and nothing locks the
\* files of output/: the file reads and writes of their merges interleave.
MaxJobRows == 1

\* the rows the crawl of a run can have left in its CSV
JobRows == { Item(<< "a" >>, Phone41), Item(<< "b" >>, Phone42) }

\* a run started from a shell, or from the dashboard (app.run_scrape)
JobKinds == { "headless", "dashboard" }

\* a run whose crawl is about to end with rows in its feed
Job(kind, rows) == [ kind |-> kind, pc |-> "crawl", rows |-> rows, local |-> << >>, wrote |-> {} ]

MergeInit ==
    /\ IdleState
    /\ arg = NoArg
    /\ ret = NoRet
    /\ jobs \in [ RunFiles -> { Job(kind, rows) : kind \in JobKinds,
                                                  rows \in SeqsUpTo(JobRows, MaxJobRows) } ]

\* the rows a file holds, as a set
RowsOf(file) == { file[i] : i \in 1..Len(file) }

\* job j moves on to position to, holding the rows local in memory
JobStep(j, to, local) ==
    /\ jobs' = [ jobs EXCEPT ![j].pc = to, ![j].local = local ]
    /\ UNCHANGED << pc, caller, cur, viaApp, golden_rows, todo, lastMainCount, dirty, merges,
                    fault, crawlVars, pureVars >>

\* job j writes the rows it holds over the golden file and moves on to position to
JobWriteGolden(j, to) ==
    /\ golden' = write_csv_rows(jobs[j].local)
    /\ jobs' = [ jobs EXCEPT ![j].pc = to,
                             ![j].wrote = @ \cup RowsOf(write_csv_rows(jobs[j].local)) ]
    /\ UNCHANGED << pc, caller, cur, viaApp, golden_rows, todo, lastMainCount, dirty, merges,
                    fault, crawlVars, pureVars, runs, order >>

\* the crawl of run j ends: process.start() returns with the feed in the run's CSV
JobCrawlEnds(j) ==
    /\ jobs[j].pc = "crawl"
    /\ runs' = [ runs EXCEPT ![j] = jobs[j].rows ]
    /\ order' = Touch(order, j)
    /\ JobStep(j, "build", << >>)
    /\ UNCHANGED golden

\* golden_record_gen.main, lines 164-171: build_golden reads the golden file
\* and the run CSVs that exist
JobBuild(j) ==
    /\ jobs[j].pc = "build"
    /\ JobStep(j, "main_write", build_golden(golden, runs, collect_input_csvs))
    /\ UNCHANGED << golden, runs, order >>

\* golden_record_gen.main, line 172
JobMainWrite(j) ==
    /\ jobs[j].pc = "main_write"
    /\ JobWriteGolden(j, "augment")

\* the loop of lines 179-182 over the files ps, with the files fs and their
\* mtime order ord as they are so far
RECURSIVE AugmentAll(_, _, _, _)
AugmentAll(fs, ord, ps, grows) ==
    IF ps = << >> THEN [ runs |-> fs, order |-> ord ]
    ELSE IF augment_csv_with_golden(fs[Head(ps)], grows) = fs[Head(ps)]
    THEN AugmentAll(fs, ord, Tail(ps), grows)
    ELSE AugmentAll([ fs EXCEPT ![Head(ps)] = augment_csv_with_golden(fs[Head(ps)], grows) ],
                    Touch(ord, Head(ps)), Tail(ps), grows)

\* golden_record_gen.main, lines 177-185: every run CSV is augmented
JobAugment(j) ==
    /\ jobs[j].pc = "augment"
    /\ runs' = AugmentAll(runs, order, collect_input_csvs, jobs[j].local).runs
    /\ order' = AugmentAll(runs, order, collect_input_csvs, jobs[j].local).order
    /\ JobStep(j, "spider_aug", << >>)
    /\ UNCHANGED golden

\* run_spider.main, lines 63-87: the run's own CSV is augmented from the golden
\* file as it is now; a dashboard run goes on to update_golden_and_augment
JobSpiderAugment(j) ==
    /\ jobs[j].pc = "spider_aug"
    /\ runs' = [ runs EXCEPT ![j] = augment_csv_with_golden(runs[j], read_csv_rows(golden)) ]
    /\ order' = IF runs'[j] # runs[j] THEN Touch(order, j) ELSE order
    /\ JobStep(j, IF jobs[j].kind = "dashboard" THEN "app_read" ELSE "done", << >>)
    /\ UNCHANGED golden

\* app.update_golden_and_augment, lines 394-406: the golden file and the run's
\* CSV are read and "combined" is computed
JobAppRead(j) ==
    /\ jobs[j].pc = "app_read"
    /\ JobStep(j, "app_write_run", Combined(read_csv_rows(golden), runs[j]))
    /\ UNCHANGED << golden, runs, order >>

\* app.update_golden_and_augment, line 409
JobAppWriteRun(j) ==
    /\ jobs[j].pc = "app_write_run"
    /\ runs' = [ runs EXCEPT ![j] = write_csv_rows(jobs[j].local) ]
    /\ order' = Touch(order, j)
    /\ JobStep(j, "app_write_golden", jobs[j].local)
    /\ UNCHANGED golden

\* app.update_golden_and_augment, line 410
JobAppWriteGolden(j) ==
    /\ jobs[j].pc = "app_write_golden"
    /\ JobWriteGolden(j, "done")

MergeSideNext ==
    \/ \E j \in RunFiles : JobCrawlEnds(j)
    \/ \E j \in RunFiles : JobBuild(j)
    \/ \E j \in RunFiles : JobMainWrite(j)
    \/ \E j \in RunFiles : JobAugment(j)
    \/ \E j \in RunFiles : JobSpiderAugment(j)
    \/ \E j \in RunFiles : JobAppRead(j)
    \/ \E j \in RunFiles : JobAppWriteRun(j)
    \/ \E j \in RunFiles : JobAppWriteGolden(j)

SpecMerge == MergeInit /\ [][MergeSideNext]_vars


\* ---------------------------------------------------------------- store claims
GoldenPhones(rows) == { RowPhone(rows[i]) : i \in 1..Len(rows) } \ { <<>> }

\* rows "old" are a prefix of rows "new", each with every field it had unchanged
\* (a rewrite may add columns to a row, which read back as "")
KeptAsPrefix(old, new) ==
    /\ Len(old) <= Len(new)
    /\ \A i \in 1..Len(old) : \A k \in DOMAIN old[i] :
           k \in DOMAIN new[i] /\ new[i][k] = old[i][k]

\* the number of run rows the merge about to happen reads
MergedRunRows ==
    IF pc = "build" THEN Len(ConcatFiles(runs, collect_input_csvs))
    ELSE IF pc = "app_merge" THEN Len(runs[cur])
    ELSE 0

\* C2: the golden file never holds two rows with the same normalized phone
C2_OneRowPerPhone ==
    \A i, j \in 1..Len(golden) : i # j => RowPhone(golden[i]) # RowPhone(golden[j])

\* C3: a merge of run rows R into a golden file of |G| rows leaves at least |G|
\* and at most |G| + |R| rows
C3_GoldenSizeBounds ==
    [][ /\ Len(golden) <= Len(golden')
        /\ Len(golden') <= Len(golden) + MergedRunRows ]_vars

\* C4: after a merge the rows the golden file held before are a prefix of the
\* new golden file, each with every field unchanged
C4_GoldenPrefixKept == [][ KeptAsPrefix(golden, golden') ]_vars

\* C5: a golden_record_gen.main that follows another main, with no file written
\* by anything else in between, leaves the golden row count where the first left it
C5_MainIdempotent ==
    (pc = "augment" /\ lastMainCount >= 0 /\ ~dirty) => Len(golden) = lastMainCount

\* the file a backfill step is about to augment, and the golden rows it uses
BackfillFile == IF pc = "augment" THEN Head(todo) ELSE cur
BackfillGolden == IF pc = "augment" THEN golden_rows ELSE read_csv_rows(golden)
BackfillStep == (pc = "augment" /\ todo # <<>>) \/ pc = "spider_aug"

\* C6: once a backfill of a run file is done, every normalized phone of the
\* golden set occurs in that file, and a second backfill would append nothing
C6_BackfillSuperset ==
    [][ BackfillStep =>
          /\ GoldenPhones(BackfillGolden) \subseteq CurPhones(runs'[BackfillFile])
          /\ AddRowsFor(CurPhones(runs'[BackfillFile]), BackfillGolden) = <<>> ]_vars

C1_PhoneAlwaysPresent ==
    /\ \A i \in 1..Len(feed) : ~Falsy(feed[i].phone)
    /\ \A i \in 1..Len(golden) : Get(golden[i], "phone") # <<>>

\* a crawl that emitted items has been merged, and its last item is the last
\* golden row
C1_Witness ==
    /\ pc = "idle"
    /\ feed # <<>>
    /\ _counts >= 1
    /\ Len(golden) >= 2
    /\ golden[Len(golden)]["phone"] = normalize_phone(feed[Len(feed)].phone)

\* a listing page of a source with query-parameter pagination was processed
ParamPageDone == last.page >= 1 /\ cfg.param

C9_NextWhenBelowTarget ==
    (/\ ParamPageDone
     /\ min_per_source > 0
     /\ cfg.max_pages # 0
     /\ last.page + 1 <= cfg.max_pages
     /\ last.count < min_per_source)
        => (last.next_param \/ (last.skipped /\ last.page + 1 \in requested))

\* a page that produced nothing had its successor requested because the
\* running count was below the target
C9_Witness ==
    /\ ParamPageDone
    /\ min_per_source > 0
    /\ ~last.skipped
    /\ last.produced = 0
    /\ last.count < min_per_source
    /\ last.next_param
    /\ ~cfg.next_page_selector

\* C10: no listing request carries a cursor above the configured max_pages
C10_CursorWithinMaxPages ==
    (cfg.param /\ cfg.max_pages # 0 /\ ~cfg.next_page_selector)
        => \A k \in requested : k <= cfg.max_pages

\* C11: when a source configures both a next-page selector and a
\* query-parameter cursor, one listing page schedules at most one next-page
\* request: the query-parameter strategy is not applied on a page whose next
\* link resolved
C11_FirstStrategyOnly ==
    (last.page >= 1 /\ cfg.next_page_selector /\ cfg.param)
        => ~(last.next_link /\ last.next_param)

\* C12: a parse_website_email response processed with the contact-tried flag
\* set schedules no further fetch whatever the page holds and finalizes the
\* record, emitting it if its phone is non-empty and dropping it otherwise;
\* and a fetch scheduled from an external site always carries the flag
C12_ContactHopOnce ==
    /\ (hop.cb = "parse_website_email" /\ hop.req.tried)
           => /\ hop.reqs = {}
              /\ IF Falsy(hop.req.item.phone) THEN hop.items = <<>>
                 ELSE Len(hop.items) = 1 /\ hop.items[1].phone = hop.req.item.phone
    /\ hop.cb = "parse_website_email"
           => \A r \in hop.reqs : r.cb = "parse_website_email" /\ r.tried

\* a contact page without an email and with a contact link of its own was
\* processed, and the record was emitted
C12_Witness ==
    /\ hop.cb = "parse_website_email"
    /\ hop.req.tried
    /\ hop.pg.contact
    /\ hop.pg.email = None
    /\ Len(hop.items) = 1
    /\ hop.reqs = {}

\* the latest callback processed a listing page's item containers
ListingHop == hop.cb = "parse_listing" /\ ~last.skipped

\* the record a container of the latest listing page gave
HopCardItem(card) == CardItem(card, hop.req.page, CardDetailUrl(card))

\* what the latest listing callback did with the record item
SentToDetail(item)  == Request("parse_detail", 0, item, FALSE) \in hop.reqs
SentToWebsite(item) == Request("parse_website_email", 0, item, FALSE) \in hop.reqs
Emitted(item)       == \E j \in 1..Len(hop.items) : hop.items[j] = item

\* the callback did to item what outcome names, and nothing else
OutcomeIs(item, outcome) ==
    /\ SentToDetail(item) <=> outcome = "detail"
    /\ SentToWebsite(item) <=> outcome = "website"
    /\ Emitted(item) <=> outcome = "emit"

\* the outcome the precedence as stated gives a container
StatedOutcome(card, item) ==
    IF cfg.detail_link /\ card.detail /\ cfg.detail_fields THEN "detail"
    ELSE IF Falsy(item.email) /\ cfg.visit_website_for_email /\ ~Falsy(item.website) THEN "website"
    ELSE IF ~Falsy(item.phone) THEN "emit"
    ELSE "drop"

\* the same precedence, with the two exceptions skip_visited_details makes
AmendedOutcome(card, item) ==
    IF /\ cfg.detail_link /\ card.detail /\ cfg.detail_fields
       /\ ~(cfg.skip_visited_details /\ DetailUrl \in _golden_detail_urls)
    THEN "detail"
    ELSE IF /\ Falsy(item.email) /\ cfg.visit_website_for_email /\ ~Falsy(item.website)
            /\ ~(cfg.skip_visited_details /\ item.phone \in _golden_phones)
    THEN "website"
    ELSE IF ~Falsy(item.phone) THEN "emit"
    ELSE "drop"

DetailFields == { "business_name", "phone", "email", "website", "address" }

\* the records the latest callback passed on, emitted or sent with a request
HopOutItems == { hop.items[j] : j \in 1..Len(hop.items) } \cup { r.item : r \in hop.reqs }

\* C14: on a detail page, a non-empty value already present on the carried-in
\* record is left unchanged, for every field, whatever the page's selectors give
C14_FillIfAbsent ==
    hop.cb = "parse_detail" =>
        \A out \in HopOutItems : \A f \in DetailFields :
            ~Falsy(hop.req.item[f]) => out[f] = hop.req.item[f]

\* the carried-in record of the latest parse_detail call after selector
\* extraction, before JSON-LD enrichment
HopSelected == DetailSelectors(hop.req.item, hop.pg)

\* C15: JSON-LD enrichment on a detail page never overwrites a field that holds
\* a non-empty value after selector extraction
C15_JsonLdSetIfAbsent ==
    hop.cb = "parse_detail" =>
        \A out \in HopOutItems : \A f \in DetailFields :
            ~Falsy(HopSelected[f]) => out[f] = HopSelected[f]

\* a detail page with a business object carrying a telephone was processed for
\* a record that had a phone and an email, and the record was passed on
C15_Witness ==
    /\ hop.cb = "parse_detail"
    /\ cfg.jsonld_fallback
    /\ \E i \in 1..Len(hop.pg.jsonld) :
          hop.pg.jsonld[i].business /\ hop.pg.jsonld[i].telephone # None
    /\ ~Falsy(HopSelected.phone)
    /\ ~Falsy(HopSelected.email)
    /\ HopOutItems # {}

\* the latest listing callback emitted the record built from the JSON-LD object obj
JsonLdEmitted(obj) == Emitted(JsonLdItem(obj, hop.req.page))

\* a container of the latest listing page yielded a candidate record
CardCandidate(card) ==
    \/ SentToDetail(HopCardItem(card))
    \/ SentToWebsite(HopCardItem(card))
    \/ Emitted(HopCardItem(card))

\* C16: on a listing page where at least one item container yielded a candidate
\* record, emitted at once or carried into a detail or website fetch, no
\* JSON-LD-derived record is emitted
C16_JsonLdOnlyWhenNoCandidate ==
    (ListingHop /\ \E i \in 1..Len(hop.pg.cards) : CardCandidate(hop.pg.cards[i]))
        => \A j \in 1..Len(hop.pg.jsonld) : ~JsonLdEmitted(hop.pg.jsonld[j])

\* the callbacks of the states LISTING, DETAIL, EXTERNAL_SITE and CONTACT_PAGE
PageCallbacks == { "parse_listing", "parse_detail", "parse_website_email" }

\* C17: a response with a status outside 200-299, in any of the states LISTING,
\* DETAIL, EXTERNAL_SITE and CONTACT_PAGE, adds exactly one error entry carrying
\* the URL and the status to the source's error list
C17_Non2xxRecorded ==
    (hop.cb \in PageCallbacks /\ Non2xx(hop.status)) =>
        /\ Len(hop.errs) = 1
        /\ hop.errs[1].url = ReqUrl(hop.req)
        /\ hop.errs[1].status = hop.status

\* the fetch the callback recorded in h answered failed: a transport failure
\* routed to on_error, or a response with a status outside 200-299
FailedFetch(h) == h.cb = "on_error" \/ (h.cb # "none" /\ Non2xx(h.status))

\* C18: a failed fetch never halts the crawl: every request that was scheduled,
\* other than the failed one, stays scheduled, and a listing page answered with
\* a non-2xx status yields the items, the follow-up requests and the next-page
\* request its content gives
C18_FailedFetchNeverHalts ==
    [][ /\ FailedFetch(hop') => (queue \ { hop'.req }) \subseteq queue'
        /\ (hop'.cb = "parse_listing" /\ Non2xx(hop'.status)) =>
              /\ hop'.items = parse_listing(hop'.req.page, hop'.pg).acc.items
              /\ hop'.reqs = parse_listing(hop'.req.page, hop'.pg).acc.reqs
              /\ hop'.reqs \subseteq queue'
              /\ feed' = feed \o hop'.items ]_vars

\* a listing page answered with a non-2xx status gave a record and the request
\* for the next page, while a request of an earlier page was still scheduled
C18_Witness ==
    /\ hop.cb = "parse_listing"
    /\ Non2xx(hop.status)
    /\ hop.items # <<>>
    /\ ListingRequest(hop.req.page + 1) \in hop.reqs
    /\ \E r \in queue : r \notin hop.reqs

\* C19: for each run the golden merge of the run's output is performed exactly
\* once, and only after the crawl has completed, for a headless run and for a
\* run launched from the dashboard
C19_FinalizedOnce ==
    /\ pc \in { "start", "crawl" } => merges = 0
    /\ merges <= 1
    /\ (pc = "idle" /\ caller = "spider") => merges = 1

\* C20: the golden merge is all-or-nothing: a merge step in which a read or a
\* write of the golden file fails changes neither the golden file nor any
\* run's output file
C20_MergeAllOrNothing ==
    [][ fault' # "none" => (golden' = golden /\ runs' = runs) ]_vars

\* ---------------------------------------------------------------- library claims
Normalizers == { "U.normalize_phone", "normalize_phone" }

\* C22: phone normalization is idempotent, for scraper.utils.normalize_phone
\* and for golden_record_gen.normalize_phone: normalizing a normalized string
\* gives the same string
C22_NormalizeIdempotent ==
    (ret.fn \in Normalizers /\ ret.n = 2) => ret.val = ret.prev

\* the separators two representations of one phone number may differ in
PhoneSeparators == { " ", "-", ".", "(", ")" }
Digits == { "0", "1", "2", "3", "4", "5", "6", "7", "8", "9" }

SepFree(s) == SelectSeq(s, LAMBDA c : c \notin PhoneSeparators)

\* digits with an optional leading "+"
IsCanonical(s) ==
    \A i \in 1..Len(s) : s[i] \in Digits \/ (i = 1 /\ s[i] = "+")

\* a representation of a phone number: digits, an optional leading "+", separators
PhoneLike(s) ==
    /\ IsCanonical(SepFree(s))
    /\ \E i \in 1..Len(s) : s[i] \in Digits

\* C23: scraper.utils.normalize_phone maps two representations of a phone to
\* the same string exactly when they differ only in separators (spaces,
\* hyphens, dots, parentheses), and the string it gives consists of digits with
\* an optional leading "+"
C23_SeparatorsCanonicalized ==
    (/\ ret.fn = "U.normalize_phone"
     /\ ret.n = 1
     /\ PhoneLike(arg.v[1])
     /\ PhoneLike(arg.v[2]))
        => /\ (ret.val[1] = ret.val[2]) <=> (SepFree(arg.v[1]) = SepFree(arg.v[2]))
           /\ IsCanonical(ret.val[1])

\* the first expression of the chain that yields a non-empty value (0: none)
FirstHit(vals) ==
    IF \E i \in 1..Len(vals) : vals[i] # None
    THEN CHOOSE i \in 1..Len(vals) : vals[i] # None /\ \A j \in 1..(i - 1) : vals[j] = None
    ELSE 0

\* a string with no whitespace at either end and no two whitespace characters
\* in a row
WhitespaceNormal(s) ==
    /\ s # <<>> => (s[1] \notin Whitespace /\ s[Len(s)] \notin Whitespace)
    /\ \A i \in 1..(Len(s) - 1) : ~(s[i] \in Whitespace /\ s[i + 1] \in Whitespace)

\* the characters of s that are not whitespace
Ink(s) == SelectSeq(s, LAMBDA c : c \notin Whitespace)

\* C24: resolve(node, chain) (extract_first, extract_attr) returns the
\* whitespace-normalized value of the first expression in chain order that
\* yields a non-empty value, whatever later expressions yield, and null when
\* every expression yields nothing
C24_ResolveFirstHit ==
    (ret.fn \in { "extract_first", "extract_attr" }) =>
        IF FirstHit(arg.v) = 0
        THEN ret.val = None
        ELSE /\ WhitespaceNormal(ret.val)
             /\ Ink(ret.val) = Ink(arg.v[FirstHit(arg.v)])
             /\ ret.val = clean_text(arg.v[FirstHit(arg.v)])

\* a chain whose first expression yields nothing, whose second yields a value
\* with whitespace to normalize and whose third yields another value
C24_Witness ==
    /\ ret.fn = "extract_first"
    /\ Len(arg.v) = 3
    /\ arg.v[1] = None
    /\ arg.v[2] = << " ", "X", " ", " ", "Y" >>
    /\ arg.v[3] = << "Y" >>
    /\ ret.val = << "X", " ", "Y" >>

\* C25: the exact-duplicate key is the same for two records if and only if the
\* records have the same fields with the same values
C25_KeyIffSameRecord ==
    ret.fn = "_canon_row_key" => ((ret.val[1] = ret.val[2]) <=> (arg.v[1] = arg.v[2]))

\* the place of x in the sequence q (0: not in it)
Pos(x, q) == IF InSeq(x, q) THEN CHOOSE i \in 1..Len(q) : q[i] = x ELSE 0

\* the header h is in the documented column order
InColumnOrder(h) ==
    \A i, j \in 1..Len(h) : i < j =>
        IF InSeq(h[i], preferred_fields)
        THEN InSeq(h[j], preferred_fields) => Pos(h[i], preferred_fields) < Pos(h[j], preferred_fields)
        ELSE /\ ~InSeq(h[j], preferred_fields)
             /\ Pos(h[i], SortedCols) < Pos(h[j], SortedCols)

\* C29: a file the golden store writes has the fields present among its rows
\* as columns, the preferred fields first in their fixed order and the other
\* fields after them in sorted order, and every row has a value for every column
C29_ColumnOrder ==
    ret.fn = "write_csv_rows" =>
        /\ { ret.val.header[i] : i \in 1..Len(ret.val.header) } = UnionKeys(arg.v)
        /\ Len(ret.val.header) = Cardinality(UnionKeys(arg.v))
        /\ InColumnOrder(ret.val.header)
        /\ Len(ret.val.rows) = Len(arg.v)
        /\ \A i \in 1..Len(ret.val.rows) :
              /\ DOMAIN ret.val.rows[i] = UnionKeys(arg.v)
              /\ \A k \in DOMAIN arg.v[i] : ret.val.rows[i][k] = arg.v[i][k]

\* two rows with different fields, preferred ones and others, were written
C29_Witness ==
    /\ ret.fn = "write_csv_rows"
    /\ Len(arg.v) = 2
    /\ DOMAIN arg.v[1] = { "phone", "businesses" }
    /\ DOMAIN arg.v[2] = { "api_requests", "source" }
    /\ ret.val.header = << "source", "phone", "api_requests", "businesses" >>

\* ---------------------------------------------------------------- crawl claims, continued
\* the latest callback was a listing page for which line 527 computed the count
\* the quota test uses
QuotaHop == hop.cb = "parse_listing" /\ ~last.skipped /\ cfg.param

\* C30: the running count compared against min_per_source after a listing page
\* equals the number of records emitted so far for the source
C30_QuotaCountIsEmitted ==
    QuotaHop => last.current_count = Len(feed)

\* C21: a sources file that cannot be read or parsed (unreadable, invalid
\* YAML, invalid JSON) is surfaced as an error when the run starts, and no
\* fetch request is issued
C21_ConfigFailureSurfaced ==
    (sources_file.content # "ok" /\ pc # "start") =>
        /\ sources_file.raised
        /\ queue = {}
        /\ requested = {}
        /\ feed = <<>>

\* how many records equal to item the latest callback emitted
EmittedCount(item) == Cardinality({ j \in 1..Len(hop.items) : hop.items[j] = item })

\* how many item containers of the latest listing page give the record item
ContainersGiving(item) ==
    Cardinality({ i \in 1..Len(hop.pg.cards) : HopCardItem(hop.pg.cards[i]) = item })

\* no detail fetch, website fetch or page-wide scan is configured
PlainListing ==
    /\ ~cfg.scan_phones_on_page
    /\ ~cfg.visit_website_for_email
    /\ ~(cfg.detail_link /\ cfg.detail_fields)

\* C26: with scan_phones_on_page off and no detail or website follow-up
\* configured, a listing page emits exactly one record for each item container
\* that has a phone and none for a container without one, also when
\* item_selector is a list of several selectors
C26_OneRecordPerContainer ==
    (ListingHop /\ PlainListing) =>
        \A i \in 1..Len(hop.pg.cards) :
            EmittedCount(HopCardItem(hop.pg.cards[i])) =
                IF ~Falsy(HopCardItem(hop.pg.cards[i]).phone)
                THEN ContainersGiving(HopCardItem(hop.pg.cards[i]))
                ELSE 0

\* a record the page-wide tel: scan made, and one an item container gave
IsScanRecord(item)      == item.business_name = None
IsContainerRecord(item) == item.business_name # None /\ item.address = None

\* C27: with scan_phones_on_page set, the page-wide scan emits at most one
\* record per normalized phone over the run, and none for a phone an item
\* container captured on the same page or on a page processed earlier
C27_ScanSkipsCaptured ==
    cfg.scan_phones_on_page =>
        /\ \A j \in 1..Len(feed) : IsScanRecord(feed[j]) =>
               \A i \in 1..(j - 1) :
                   (IsScanRecord(feed[i]) \/ IsContainerRecord(feed[i]))
                       => feed[i].phone # feed[j].phone
        /\ ListingHop =>
               \A j \in 1..Len(hop.items) : IsScanRecord(hop.items[j]) =>
                   \A i \in 1..Len(hop.pg.cards) :
                       HopCardItem(hop.pg.cards[i]).phone # hop.items[j].phone

\* the second page's only tel: link carries the phone a container of the first
\* page gave, and the scan emitted nothing for it
C27_Witness ==
    /\ cfg.scan_phones_on_page
    /\ ListingHop
    /\ hop.req.page = 2
    /\ hop.pg.cards = <<>>
    /\ hop.pg.tels = << << "tel:", "4", "1" >> >>
    /\ hop.items = <<>>
    /\ Len(feed) = 1
    /\ IsContainerRecord(feed[1])
    /\ feed[1].phone = Phone41

\* the counts a summary holds when the run emitted n records
CountsOf(n) == IF n = 0 THEN << >> ELSE [name \in {"s"} |-> n]

\* C28: the per-source count equals the number of records the run emitted for
\* the source, the summary written at close carries that count, and it lists
\* every source of the configuration, the disabled ones included
C28_CountsAndSummary ==
    /\ pc = "crawl" => _counts = Len(feed)
    /\ summary.written =>
           /\ summary.counts = CountsOf(Len(feed))
           /\ Loaded => \A i \in 1..Len(Sources) :
                  InSeq(Sources[i].name, summary.configured_sources)

\* a summary written after a run that emitted records, naming the disabled
\* source next to the enabled one
C28_Witness ==
    /\ summary.written
    /\ Len(feed) > 0
    /\ summary.counts = CountsOf(Len(feed))
    /\ InSeq("d", summary.configured_sources)
    /\ InSeq("s", summary.configured_sources)

\* the callbacks of the follow-up fetches DETAIL, EXTERNAL_SITE and CONTACT_PAGE
FollowUpCallbacks == { "parse_detail", "parse_website_email" }

\* the latest callback answered a follow-up fetch that had been scheduled for a
\* partial record with a non-empty phone
FollowUpAnswered ==
    /\ hop.cb \in FollowUpCallbacks \cup { "on_error" }
    /\ hop.req.cb \in FollowUpCallbacks
    /\ ~Falsy(hop.req.item.phone)

\* C31: a partial record that has a non-empty phone when a follow-up fetch is
\* scheduled for it is eventually emitted exactly once, however the fetch ends
\* (2xx, non-2xx, or a transport failure routed to on_error): whatever answers
\* the fetch either emits the record once or carries it into a further fetch
C31_FollowUpRecordKept ==
    FollowUpAnswered =>
        \/ Len(hop.items) = 1 /\ hop.reqs = {}
        \/ hop.items = <<>> /\ Cardinality(hop.reqs) = 1

\* the golden row old is still in the file: some row has its phone, up to
\* normalization, and every other field of it unchanged
StillStored(old, file) ==
    \E i \in 1..Len(file) :
        /\ RowPhone(file[i]) = RowPhone(old)
        /\ \A k \in DOMAIN old \ { "phone" } : k \in DOMAIN file[i] /\ file[i][k] = old[k]

\* C36: a merge in which the read of the existing golden file fails (so that
\* read_csv_rows returns no rows) does not overwrite the golden file with a set
\* that lacks rows the golden file held before
C36_ReadFailureKeepsGolden ==
    [][ fault' = "read" => \A i \in 1..Len(golden) : StillStored(golden[i], golden') ]_vars

\* both merges that ran side by side have completed
BothMerged == jobs # NoJobs /\ \A j \in RunFiles : jobs[j].pc = "done"

\* C32: when the golden merges of two runs that end side by side interleave, no
\* row that either merge wrote to the golden file is missing from it once both
\* have completed, and the golden row count never drops below a value written
\* before
C32_InterleavedMergesLoseNothing ==
    [][ /\ Len(golden') >= Len(golden)
        /\ BothMerged' => \A j \in RunFiles : jobs'[j].wrote \subseteq RowsOf(golden') ]_vars

\* a follow-up request in flight whose answer, whatever it is, emits its record
SureToEmit(r) ==
    /\ r.cb \in FollowUpCallbacks
    /\ ~Falsy(r.item.phone)
    /\ r.cb = "parse_detail" => ~cfg.visit_website_for_email
    /\ r.cb = "parse_website_email" => (r.tried \/ ~cfg.visit_contact_page)

\* the follow-up requests that were in flight while the latest listing page
\* was processed, and could as well have been answered before it
InFlight == { r \in queue \ hop.reqs : SureToEmit(r) }

\* C33: for a fixed configuration and fixed page contents, the set of listing
\* pages requested does not depend on the order in which responses in flight
\* at the same time are processed: the next-page decision a listing page takes
\* is the one it would have taken had the follow-up fetches in flight been
\* answered first
C33_PagesIndependentOfOrder ==
    (ListingHop /\ cfg.param) =>
        \A n \in 0..Cardinality(InFlight) :
            last.next_param <=>
                /\ WithinMaxPages(last.page + 1)
                /\ (NeedMore(last.current_count + n) \/ last.produced > 0)

\* the listing page the step has processed is one the golden set already covers
VisitedListing(h) ==
    /\ h.cb = "parse_listing"
    /\ cfg.skip_visited_listings
    /\ ListingUrl(h.req.page) \in _golden_listing_urls

\* C34: with skip_visited_listings set, processing a listing page whose URL is
\* among the golden set's listing URLs emits no record, schedules no detail or
\* website fetch and changes no per-source count; it only schedules the next
\* listing page, if any pagination applies
C34_VisitedListingSkipped ==
    [][ VisitedListing(hop') =>
            /\ hop'.items = << >>
            /\ \A r \in hop'.reqs : r.cb = "parse_listing"
            /\ _counts' = _counts ]_vars

\* the state a request fetches for the record it carries: 1 DETAIL,
\* 2 EXTERNAL_SITE, 3 CONTACT_PAGE, 0 for a request that carries none
Stage(r) ==
    IF r.cb = "parse_detail" THEN 1
    ELSE IF r.cb = "parse_website_email" THEN (IF r.tried THEN 3 ELSE 2)
    ELSE 0

\* C35: every partial record created on a listing page reaches a terminal
\* outcome, emitted once or dropped, after at most three follow-up fetches
\* (DETAIL, then EXTERNAL_SITE, then CONTACT_PAGE), visited only in that order,
\* and no record is emitted more than once: a listing page sends a record to
\* DETAIL or EXTERNAL_SITE without emitting it as well, and whatever answers a
\* follow-up fetch either ends the record's journey with at most one emission
\* or sends it on, once, to a later state
C35_FollowUpsInOrder ==
    /\ hop.cb = "parse_listing" =>
           \A r \in hop.reqs : r.cb # "parse_listing" =>
               Stage(r) \in { 1, 2 } /\ ~Emitted(r.item)
    /\ (hop.cb \in FollowUpCallbacks \cup { "on_error" } /\ Stage(hop.req) > 0) =>
           /\ Len(hop.items) + Cardinality(hop.reqs) <= 1
           /\ \A r \in hop.reqs : Stage(r) > Stage(hop.req) /\ Stage(r) <= 3

\* a record that came through DETAIL and EXTERNAL_SITE was emitted from its
\* CONTACT_PAGE, the third fetch
C35_Witness ==
    /\ hop.cb = "parse_website_email"
    /\ Stage(hop.req) = 3
    /\ hop.req.item.detail_url = DetailUrl
    /\ Len(hop.items) = 1
    /\ hop.reqs = {}
    /\ cfg.detail_link

\* the fields an accepted JSON-LD business object supplies a value for
Supplied(obj) ==
    { f \in { "business_name", "phone", "address" } :
        \/ f = "business_name"
        \/ f = "phone" /\ obj.telephone # None
        \/ f = "address" /\ obj.street # None }

\* the value it supplies for the field f
SuppliedValue(obj, f) ==
    IF f = "phone" THEN U_normalize_phone(obj.telephone)
    ELSE IF f = "address" THEN obj.street
    ELSE << "a" >>

\* C37: on a detail page with structured-data fallback enabled, every field
\* that is still empty after selector extraction and for which an accepted
\* JSON-LD business object supplies a value holds that value on the finalized
\* record, also when the listing-page extraction had set the field to an
\* empty value
C37_JsonLdFillsEmpty ==
    (hop.cb = "parse_detail" /\ cfg.jsonld_fallback) =>
        \A out \in HopOutItems : \A i \in 1..Len(hop.pg.jsonld) :
            hop.pg.jsonld[i].business =>
                \A f \in Supplied(hop.pg.jsonld[i]) :
                    Falsy(HopSelected[f]) => out[f] = SuppliedValue(hop.pg.jsonld[i], f)

\* C38: golden_record_gen.normalize_phone and scraper.utils.normalize_phone
\* agree on every input, so that a phone emitted by the spider equals its
\* golden-store key: what either returns for a representation of a phone
\* number is what the other returns for it
C38_NormalizersAgree ==
    /\ ret.fn = "U.normalize_phone" =>
           \A i \in 1..Len(ret.prev) :
               PhoneLike(ret.prev[i]) => ret.val[i] = normalize_phone(ret.prev[i])
    /\ ret.fn = "normalize_phone" =>
           \A i \in 1..Len(ret.prev) :
               PhoneLike(ret.prev[i]) => ret.val[i] = U_normalize_phone(ret.prev[i])
====
